---- MODULE Spec2Model ----
(***************************************************************************)
(* Model of grcov-to-markdown.py: the README assembler that combines the   *)
(* output of `cargo readme`, a grcov HTML coverage report and referenced   *)
(* documentation files.                                                    *)
(*                                                                         *)
(* Text is modelled in two layers.  Cell text of the HTML report is a      *)
(* sequence of one-character strings, so that strip / split / float / int  *)
(* are computed as the code computes them.  Document text (the README, the *)
(* files it references, the markdown table) is a sequence of tokens: a     *)
(* chunk of plain text, the fixed test-status marker, a docs-reference     *)
(* placeholder, or one line of the markdown table.  str.replace and        *)
(* re.findall act on whole tokens.  A float is held exactly, in hundredths.*)
(***************************************************************************)
EXTENDS Integers, Sequences, FiniteSets, TLC

\* ------------------------------------------------------------------ bounds
MaxRows == 3
MaxDocLen == 3

\* --------------------------------------------------------- program constants
MinCells == 6

BarUrl == "https://geps.dev/progress/"

\* ------------------------------------------------------------ character text
Digits == <<"0", "1", "2", "3", "4", "5", "6", "7", "8", "9">>

IsDigit(c) == \E i \in 1..10 : Digits[i] = c

DigitVal(c) == (CHOOSE i \in 1..10 : Digits[i] = c) - 1

AllDigits(s) == \A i \in 1..Len(s) : IsDigit(s[i])

RECURSIVE DecVal(_)
DecVal(s) == IF s = <<>> THEN 0
             ELSE 10 * DecVal(SubSeq(s, 1, Len(s) - 1)) + DigitVal(s[Len(s)])

RECURSIVE LStripCh(_, _)
LStripCh(s, c) == IF s # <<>> /\ Head(s) = c THEN LStripCh(Tail(s), c) ELSE s

RECURSIVE RStripCh(_, _)
RStripCh(s, c) == IF s # <<>> /\ s[Len(s)] = c
                  THEN RStripCh(SubSeq(s, 1, Len(s) - 1), c) ELSE s

\* str.strip(): leading and trailing whitespace removed
strip(s) == RStripCh(LStripCh(s, " "), " ")

\* str.strip('%'): leading and trailing percent signs removed
strip_percent(s) == RStripCh(LStripCh(s, "%"), "%")

\* index of the first occurrence of c in s, 0 when there is none
IndexOf(s, c) == IF \E i \in 1..Len(s) : s[i] = c
                 THEN CHOOSE i \in 1..Len(s) : s[i] = c /\ \A j \in 1..(i - 1) : s[j] # c
                 ELSE 0

\* str.split(c): the pieces between the occurrences of c
RECURSIVE split(_, _)
split(s, c) == LET i == IndexOf(s, c)
               IN  IF i = 0 THEN <<s>>
                   ELSE <<SubSeq(s, 1, i - 1)>> \o split(SubSeq(s, i + 1, Len(s)), c)

\* int(text): surrounding whitespace is accepted, then decimal digits only.
\* ok = FALSE stands for ValueError.
int(s) == LET t == strip(s)
          IN  IF t # <<>> /\ AllDigits(t)
              THEN [ok |-> TRUE, val |-> DecVal(t)]
              ELSE [ok |-> FALSE, val |-> 0]

\* float(text) for plain decimals with at most two fractional digits; the
\* value is exact, in hundredths.  ok = FALSE stands for ValueError.
float(s) == LET t == strip(s)
                p == split(t, ".")
                ip == p[1]
                fp == IF Len(p) = 2 THEN p[2] ELSE <<>>
                f2 == IF Len(fp) = 0 THEN <<"0", "0">>
                      ELSE IF Len(fp) = 1 THEN fp \o <<"0">> ELSE fp
            IN  IF /\ Len(p) <= 2
                   /\ AllDigits(ip) /\ AllDigits(fp)
                   /\ Len(ip) + Len(fp) > 0
                   /\ Len(fp) <= 2
                THEN [ok |-> TRUE, val |-> 100 * DecVal(ip) + DecVal(f2)]
                ELSE [ok |-> FALSE, val |-> 0]

\* a rounding that drops the fraction, as int(coverage) would
round_down(h) == h \div 100

\* round(x) of Python 3 on a float: nearest integer, ties to the even one
round(h) == LET q == h \div 100
                r == h % 100
            IN  IF r < 50 THEN q
                ELSE IF r > 50 THEN q + 1
                ELSE IF q % 2 = 0 THEN q ELSE q + 1

\* ------------------------------------------------------------ document text
NoPath == <<"", "">>

Tok(kind, label, path, name, bar, cov, covered, total) ==
    [kind |-> kind, label |-> label, path |-> path, name |-> name,
     bar |-> bar, cov |-> cov, covered |-> covered, total |-> total]

Text(s) == Tok("text", s, NoPath, <<>>, <<"", 0>>, 0, 0, 0)

\* '[See Test Status](./TEST_STATUS.md)'
Marker == Tok("marker", "", NoPath, <<>>, <<"", 0>>, 0, 0, 0)

\* '([docs: <label>](./<stem>.<ext>))'
DocsRef(label, path) == Tok("docs", label, path, <<>>, <<"", 0>>, 0, 0, 0)

RECURSIVE Flatten(_)
Flatten(ss) == IF ss = <<>> THEN <<>> ELSE Head(ss) \o Flatten(Tail(ss))

\* a replacement of the first occurrence only, as str.replace(old, new, 1)
replace_first(doc, old, new) ==
    LET hits == {i \in 1..Len(doc) : doc[i] = old}
    IN  IF hits = {} THEN doc
        ELSE LET i == CHOOSE h \in hits : \A g \in hits : h <= g
             IN  SubSeq(doc, 1, i - 1) \o new \o SubSeq(doc, i + 1, Len(doc))

\* str.replace(old, new): every occurrence of old, left to right, inserted
\* text is not scanned again
replace(doc, old, new) ==
    Flatten([i \in 1..Len(doc) |-> IF doc[i] = old THEN new ELSE <<doc[i]>>])

Count(doc, t) == Cardinality({i \in 1..Len(doc) : doc[i] = t})

Occurs(doc, t) == \E i \in 1..Len(doc) : doc[i] = t

\* ------------------------------------------------------------ report renderer
generate_header ==
    << Tok("header", "", NoPath, <<>>, <<"", 0>>, 0, 0, 0),
       Tok("separator", "", NoPath, <<>>, <<"", 0>>, 0, 0, 0) >>

generate_bar(coverage) == <<BarUrl, round(coverage)>>

\* a row with the last two columns in the wrong order
generate_row_swapped(file_name, line_coverage, lines_covered, lines_total) ==
    << Tok("row", "", NoPath, file_name, generate_bar(line_coverage),
           line_coverage, lines_total, lines_covered) >>

generate_row(file_name, line_coverage, lines_covered, lines_total) ==
    << Tok("row", "", NoPath, file_name, generate_bar(line_coverage),
           line_coverage, lines_covered, lines_total) >>

\* One iteration of the loop over rows[1:].  raised = TRUE stands for the
\* exception that leaves parse_html_coverage_report (AttributeError when the
\* row has no th, ValueError from float, int or the two-name unpacking).
RowResult(row) ==
    IF Len(row.td) >= MinCells
    THEN LET cov == float(strip_percent(strip(row.td[2])))
             parts == split(strip(row.td[3]), "/")
             a == int(parts[1])
             b == IF Len(parts) >= 2 THEN int(parts[2]) ELSE [ok |-> FALSE, val |-> 0]
         IN  IF /\ row.th # <<>>
                /\ cov.ok
                /\ Len(parts) = 2 /\ a.ok /\ b.ok
             THEN [raised |-> FALSE,
                   out |-> generate_row(strip(row.th[1]), cov.val, a.val, b.val)]
             ELSE [raised |-> TRUE, out |-> <<>>]
    ELSE [raised |-> FALSE, out |-> <<>>]

\* a loop that ends at the first row with fewer than six cells
RECURSIVE RowLoop_Break(_, _)
RowLoop_Break(rows, acc) ==
    IF rows = <<>> THEN [raised |-> FALSE, out |-> acc]
    ELSE IF Len(Head(rows).td) < MinCells THEN [raised |-> FALSE, out |-> acc]
    ELSE LET r == RowResult(Head(rows))
         IN  IF r.raised THEN [raised |-> TRUE, out |-> acc]
             ELSE RowLoop_Break(Tail(rows), acc \o r.out)

RECURSIVE RowLoop(_, _)
RowLoop(rows, acc) ==
    IF rows = <<>> THEN [raised |-> FALSE, out |-> acc]
    ELSE LET r == RowResult(Head(rows))
         IN  IF r.raised THEN [raised |-> TRUE, out |-> acc]
             ELSE RowLoop(Tail(rows), acc \o r.out)

parse_html_coverage_report(trs) ==
    RowLoop(IF trs = <<>> THEN <<>> ELSE Tail(trs), generate_header)

\* ------------------------------------------------------- placeholder resolver
replace_test_status(readme_content, test_status_content) ==
    replace(readme_content, Marker, test_status_content)

\* re.findall(pattern, text): one (label, path) pair per placeholder, in the
\* order of a left-to-right scan
IsDocs(t) == t.kind = "docs"

findall(doc) ==
    LET refs == SelectSeq(doc, IsDocs)
    IN  [i \in 1..Len(refs) |-> <<refs[i].label, refs[i].path>>]

\* ------------------------------------------------------------------- state
VARIABLES
    cargo_base,       \* what `cargo readme` without arguments does: outcome, stdout
    html,             \* .artifacts/coverage/html/index.html: exists, its tr elements
    disk,             \* the files docs references may name
    pc,               \* position of main
    exit,             \* exit outcome of the process
    readme_content,   \* local of main
    markdown_report,  \* local of main
    matches,          \* local of replace_docs_links
    idx,              \* position of the for loop of replace_docs_links
    README,           \* README.md: number of writes, content
    TEST_STATUS       \* TEST_STATUS.md: number of writes, content

env == <<cargo_base, html, disk>>

vars == <<cargo_base, html, disk, pc, exit, readme_content, markdown_report,
          matches, idx, README, TEST_STATUS>>

\* ------------------------------------------------------------- collaborators
\* run_cargo_readme: stdout when the command exits with status 0, None when
\* it raises CalledProcessError
run_cargo_readme(invocation) ==
    IF invocation.outcome = "ok"
    THEN [none |-> FALSE, text |-> invocation.stdout]
    ELSE [none |-> TRUE, text |-> <<>>]

\* the invocation `cargo readme -i <file_name> --no-template ...`
Scoped(file_name) == [outcome |-> disk[file_name].gen, stdout |-> disk[file_name].content]

read_file(file_name) == [none |-> FALSE, text |-> disk[file_name].content]

write_to_file(file, content) == [writes |-> file.writes + 1, content |-> content]

\* os.path.exists(file_name)
exists(file_name) == file_name \in DOMAIN disk /\ disk[file_name].exists

\* `if file_content:` is false for None and for the empty string
Truthy(file_content) == ~file_content.none /\ file_content.text # <<>>

\* a loop body that deletes the placeholder of a file that does not exist
ResolveMatch_DropMissing(content, match) ==
    LET doc_text == match[1]
        file_name == match[2]
    IN  IF exists(file_name)
        THEN LET file_content == IF file_name[2] = "rs"
                                 THEN run_cargo_readme(Scoped(file_name))
                                 ELSE read_file(file_name)
             IN  IF Truthy(file_content)
                 THEN replace(content, DocsRef(doc_text, file_name), file_content.text)
                 ELSE content
        ELSE replace(content, DocsRef(doc_text, file_name), <<>>)

\* body of the for loop of replace_docs_links for one match
ResolveMatch(content, match) ==
    LET doc_text == match[1]
        file_name == match[2]
    IN  IF exists(file_name)
        THEN LET file_content == IF file_name[2] = "rs"
                                 THEN run_cargo_readme(Scoped(file_name))
                                 ELSE read_file(file_name)
             IN  IF Truthy(file_content)
                 THEN replace(content, DocsRef(doc_text, file_name), file_content.text)
                 ELSE content
        ELSE content

\* ----------------------------------------------------------------- main
\* a step 1 that goes on with empty text when the generator fails
Step1_NoAbort ==
    /\ pc = "start"
    /\ IF cargo_base.outcome = "nolaunch"
       THEN /\ pc' = "crashed"
            /\ exit' = "failure"
            /\ UNCHANGED readme_content
       ELSE /\ pc' = "write_base"
            /\ readme_content' = run_cargo_readme(cargo_base).text
            /\ UNCHANGED exit
    /\ UNCHANGED <<env, markdown_report, matches, idx, README, TEST_STATUS>>

Step1 ==
    /\ pc = "start"
    /\ IF cargo_base.outcome = "nolaunch"
       THEN /\ pc' = "crashed"
            /\ exit' = "failure"
            /\ UNCHANGED readme_content
       ELSE LET out == run_cargo_readme(cargo_base)
            IN  IF out.none
                THEN /\ pc' = "aborted"
                     /\ exit' = "success"
                     /\ UNCHANGED readme_content
                ELSE /\ pc' = "write_base"
                     /\ readme_content' = out.text
                     /\ UNCHANGED exit
    /\ UNCHANGED <<env, markdown_report, matches, idx, README, TEST_STATUS>>

Step2 ==
    /\ pc = "write_base"
    /\ README' = write_to_file(README, readme_content)
    /\ pc' = "check_report"
    /\ UNCHANGED <<env, exit, readme_content, markdown_report, matches, idx, TEST_STATUS>>

\* a step 3 that reports the missing file and goes on
Step3_NoReturn ==
    /\ pc = "check_report"
    /\ pc' = "parse"
    /\ UNCHANGED <<env, exit, readme_content, markdown_report, matches, idx, README, TEST_STATUS>>

Step3 ==
    /\ pc = "check_report"
    /\ IF ~html.exists
       THEN pc' = "early_exit" /\ exit' = "success"
       ELSE pc' = "parse" /\ UNCHANGED exit
    /\ UNCHANGED <<env, readme_content, markdown_report, matches, idx, README, TEST_STATUS>>

Step4 ==
    /\ pc = "parse"
    /\ LET r == parse_html_coverage_report(html.trs)
       IN  IF r.raised
           THEN /\ pc' = "crashed"
                /\ exit' = "failure"
                /\ UNCHANGED markdown_report
           ELSE /\ pc' = "marker"
                /\ markdown_report' = r.out
                /\ UNCHANGED exit
    /\ UNCHANGED <<env, readme_content, matches, idx, README, TEST_STATUS>>

\* a step 5 that also saves the document it has just changed
Step5_Persist ==
    /\ pc = "marker"
    /\ readme_content' = replace_test_status(readme_content, markdown_report)
    /\ README' = write_to_file(README, readme_content')
    /\ pc' = "docs_scan"
    /\ UNCHANGED <<env, exit, markdown_report, matches, idx, TEST_STATUS>>

Step5 ==
    /\ pc = "marker"
    /\ readme_content' = replace_test_status(readme_content, markdown_report)
    /\ pc' = "docs_scan"
    /\ UNCHANGED <<env, exit, markdown_report, matches, idx, README, TEST_STATUS>>

DocsScan ==
    /\ pc = "docs_scan"
    /\ matches' = findall(readme_content)
    /\ idx' = 1
    /\ pc' = "docs_loop"
    /\ UNCHANGED <<env, exit, readme_content, markdown_report, README, TEST_STATUS>>

\* a loop that scans the document again after every match
DocsIter_Rescan ==
    /\ pc = "docs_loop"
    /\ idx <= Len(matches)
    /\ readme_content' = ResolveMatch(readme_content, matches[idx])
    /\ matches' = findall(readme_content')
    /\ idx' = idx + 1
    /\ UNCHANGED <<env, pc, exit, markdown_report, README, TEST_STATUS>>

DocsIter ==
    /\ pc = "docs_loop"
    /\ idx <= Len(matches)
    /\ readme_content' = ResolveMatch(readme_content, matches[idx])
    /\ idx' = idx + 1
    /\ UNCHANGED <<env, pc, exit, markdown_report, matches, README, TEST_STATUS>>

DocsReturn ==
    /\ pc = "docs_loop"
    /\ idx > Len(matches)
    /\ pc' = "write_final"
    /\ UNCHANGED <<env, exit, readme_content, markdown_report, matches, idx, README, TEST_STATUS>>

Step7Readme ==
    /\ pc = "write_final"
    /\ README' = write_to_file(README, readme_content)
    /\ pc' = "write_status"
    /\ UNCHANGED <<env, exit, readme_content, markdown_report, matches, idx, TEST_STATUS>>

Step7Status ==
    /\ pc = "write_status"
    /\ TEST_STATUS' = write_to_file(TEST_STATUS, markdown_report)
    /\ pc' = "done"
    /\ exit' = "success"
    /\ UNCHANGED <<env, readme_content, markdown_report, matches, idx, README>>

Next ==
    \/ Step1
    \/ Step2
    \/ Step3
    \/ Step4
    \/ Step5
    \/ DocsScan
    \/ DocsIter
    \/ DocsReturn
    \/ Step7Readme
    \/ Step7Status

\* ------------------------------------------------------------------ inputs
\* documents and files
PathA == <<"a", "md">>
PathB == <<"b", "md">>
PathC == <<"c", "md">>
PathR == <<"r", "rs">>

Paths == {PathA, PathB, PathC, PathR}

RefA == DocsRef("A", PathA)
RefB == DocsRef("B", PathB)
RefC == DocsRef("C", PathC)
RefR == DocsRef("R", PathR)

Missing == [exists |-> FALSE, content |-> <<>>, gen |-> "fail"]

File(content) == [exists |-> TRUE, content |-> content, gen |-> "ok"]

\* a source file for which the scoped `cargo readme` exits with an error
Ungenerable == [exists |-> TRUE, content |-> <<>>, gen |-> "fail"]

FilesA == {Missing, File(<<>>), File(<<Text("x")>>), File(<<RefB>>), File(<<RefA>>),
           File(<<Text("x"), RefC>>)}

FilesB == {Missing, File(<<Text("y")>>), File(<<RefA>>)}

FilesR == {Missing, Ungenerable, File(<<>>), File(<<Text("g")>>)}

Disks == {[p \in Paths |-> IF p = PathA THEN a
                           ELSE IF p = PathB THEN b
                           ELSE IF p = PathR THEN r
                           ELSE File(<<Text("z")>>)] :
             a \in FilesA, b \in FilesB, r \in FilesR}

SeqsUpTo(S, n) == UNION {[1..k -> S] : k \in 0..n}

\* rows of the coverage report
Chr(n) == Digits[n + 1]

Dec(n) == IF n < 10 THEN <<Chr(n)>>
          ELSE IF n < 100 THEN <<Chr(n \div 10), Chr(n % 10)>>
          ELSE <<Chr(n \div 100), Chr((n \div 10) % 10), Chr(n % 10)>>

Cells(coverage, lines) == <<<<>>, coverage, lines, <<"0">>, <<"0">>, <<"0">>>>

Row(name, td) == [th |-> <<name>>, td |-> td]

HeaderRow == [th |-> <<<<"F">>, <<"L">>>>, td |-> <<>>]

ValidRows ==
    { Row(<<" ", "a", " ">>, Cells(<<"8", "0", ".", "0", "%">>, <<"8", "/", "1", "0">>)),
      Row(<<"b">>, Cells(<<" ", "2", ".", "5", "%", " ">>, <<"6", " ", "/", " ", "7">>)
                   \o <<<<"0">>>>),
      Row(<<"c">>, Cells(<<"6", "6", ".", "6", "7", "%">>, <<"0", "8", "/", "1", "0">>)) }

ShortRows ==
    { Row(<<"s">>, SubSeq(Cells(<<"5", "0", "%">>, <<"1", "/", "2">>), 1, 5)),
      Row(<<"d">>, <<>>) }

MalformedRows ==
    { Row(<<"m">>, Cells(<<"x", "%">>, <<"1", "/", "2">>)),
      Row(<<"m">>, Cells(<<"5", "0", "%">>, <<"8">>)),
      Row(<<"m">>, Cells(<<"5", "0", "%">>, <<"8", "/", "x">>)),
      Row(<<"m">>, Cells(<<"5", "0", "%">>, <<"1", "/", "2", "/", "3">>)),
      [th |-> <<>>, td |-> Cells(<<"5", "0", "%">>, <<"1", "/", "2">>)] }

RowSamples == ValidRows \cup ShortRows \cup MalformedRows

Fractions == {<<>>, <<".">>, <<".", "0">>, <<".", "5">>, <<".", "7">>, <<".", "4", "9">>,
              <<".", "5", "0">>, <<".", "5", "1">>}

CoverageTexts ==
    {Dec(n) \o f \o <<"%">> : n \in 0..99, f \in Fractions}
        \cup {<<"1", "0", "0">> \o f \o <<"%">> : f \in {<<>>, <<".", "0">>, <<".", "0", "0">>}}

SimpleDisk == [p \in Paths |-> IF p = PathA THEN File(<<Text("x")>>) ELSE Missing]

Start ==
    /\ pc = "start"
    /\ exit = "none"
    /\ readme_content = <<>>
    /\ markdown_report = <<>>
    /\ matches = <<>>
    /\ idx = 0
    /\ README = [writes |-> 0, content |-> <<>>]
    /\ TEST_STATUS = [writes |-> 0, content |-> <<>>]

\* runs that differ in what the assembler meets at each step
InitAssembler ==
    /\ cargo_base \in [outcome : {"ok", "fail", "nolaunch"},
                       stdout : {<<>>, <<Text("t")>>, <<Text("t"), Marker>>,
                                 <<Marker, RefA, Marker>>, <<RefR, Marker, RefB>>}]
    /\ html \in [exists : BOOLEAN,
                 trs : {<<>>, <<HeaderRow>>} \cup
                       {<<HeaderRow>> \o rs : rs \in SeqsUpTo(RowSamples, 1)}]
    /\ disk \in {SimpleDisk, [SimpleDisk EXCEPT ![PathR] = Ungenerable],
                 [SimpleDisk EXCEPT ![PathB] = File(<<Text("y")>>)]}
    /\ Start

\* runs that differ in the coverage report
InitRenderer ==
    /\ cargo_base = [outcome |-> "ok", stdout |-> <<Text("t"), Marker>>]
    /\ html \in [exists : {TRUE},
                 trs : {<<HeaderRow>> \o rs : rs \in SeqsUpTo(RowSamples, MaxRows)} \cup
                       {<<first>> \o rs : first \in ValidRows \cup MalformedRows,
                                          rs \in SeqsUpTo(RowSamples, 1)} \cup
                       {<<HeaderRow, Row(<<"a">>, Cells(c, <<"1", "/", "2">>))>> :
                            c \in CoverageTexts}]
    /\ disk = SimpleDisk
    /\ Start

\* runs that differ in the document and in the files it references
InitResolver ==
    /\ cargo_base \in [outcome : {"ok"},
                       stdout : SeqsUpTo({Text("t"), RefA, RefB, RefR}, MaxDocLen)]
    /\ html = [exists |-> TRUE, trs |-> <<HeaderRow>>]
    /\ disk \in Disks
    /\ Start

Init == InitAssembler \/ InitRenderer \/ InitResolver

Spec == Init /\ [][Next]_vars

\* a sequential program: a step of replace_docs_links or of the writes after
\* it, once enabled, is eventually taken
FairSpec ==
    /\ Spec
    /\ WF_vars(DocsIter)
    /\ WF_vars(DocsReturn)
    /\ WF_vars(Step7Readme)
    /\ WF_vars(Step7Status)

\* ------------------------------------------------------------- vocabulary
Abs(n) == IF n < 0 THEN -n ELSE n

Ref(match) == DocsRef(match[1], match[2])

\* the document replace_docs_links is called with
Scanned == replace_test_status(cargo_base.stdout, markdown_report)

InDocs == pc \in {"docs_loop", "write_final", "write_status", "done"}

DocsReturned == pc \in {"write_final", "write_status", "done"}

ParsedOk == pc \in {"marker", "docs_scan", "docs_loop", "write_final", "write_status", "done"}

\* the rows after the first that have at least six cells, in source order
HasSixCells(row) == Len(row.td) >= 6

LongRows == SelectSeq(IF html.trs = <<>> THEN <<>> ELSE Tail(html.trs), HasSixCells)

\* the text a resolvable reference resolves to
Target(match) == disk[match[2]]

Unresolvable(match) ==
    \/ ~Target(match).exists
    \/ match[2][2] = "rs" /\ Target(match).gen = "fail"

RefTokens == {RefA, RefB, RefC, RefR}

\* ------------------------------------------------------------------ claims

\* C1, as stated: when the base invocation of the generator fails or prints
\* nothing, the run stops at step 1, README.md and TEST_STATUS.md are never
\* written and no later step runs.
C1_AbortOnFailureOrEmpty ==
    (\/ cargo_base.outcome = "fail"
     \/ cargo_base.outcome = "ok" /\ cargo_base.stdout = <<>>)
    => /\ pc \in {"start", "aborted"}
       /\ README.writes = 0
       /\ TEST_STATUS.writes = 0

\* C1, amended: when the base invocation fails the run stops at step 1 and
\* writes nothing and runs no later step; an invocation that succeeds with
\* empty output does not stop the run, README.md is written with it.
C1_AbortOnFailure ==
    /\ cargo_base.outcome = "fail"
       => /\ pc \in {"start", "aborted"}
          /\ README.writes = 0
          /\ TEST_STATUS.writes = 0
          /\ markdown_report = <<>> /\ matches = <<>> /\ readme_content = <<>>
    /\ (cargo_base.outcome = "ok" /\ cargo_base.stdout = <<>>)
       => /\ pc # "aborted"
          /\ pc \notin {"start", "write_base"} => README.writes >= 1

C1_Witness == pc = "aborted" /\ cargo_base.outcome = "fail" /\ html.exists

\* C2: a failing base invocation ends the process with a failure exit
\* outcome, and a success exit outcome means that step 7 completed or that
\* the missing-report early exit was taken.
C2_FailureExit ==
    /\ (cargo_base.outcome = "fail" /\ pc # "start") => exit = "failure"
    /\ exit = "success" => pc \in {"done", "early_exit"}

\* C3: when step 1 succeeds and the coverage report is absent, main ends
\* without error, README.md has been written exactly once with the unmodified
\* base document and TEST_STATUS.md is never written.
C3_MissingReport ==
    (/\ cargo_base.outcome = "ok"
     /\ ~html.exists
     /\ pc \notin {"start", "write_base", "check_report"})
    => /\ pc = "early_exit"
       /\ exit = "success"
       /\ README = [writes |-> 1, content |-> cargo_base.stdout]
       /\ TEST_STATUS.writes = 0

C3_Witness ==
    /\ pc = "early_exit"
    /\ Occurs(cargo_base.stdout, Marker)
    /\ Occurs(cargo_base.stdout, RefA)
    /\ exists(PathA)

\* C4: once step 2 has run, README.md holds the base document or the fully
\* substituted final document and nothing in between; the final README.md is
\* written before TEST_STATUS.md; when a step fails README.md still holds the
\* base document and TEST_STATUS.md has not been written.
C4_ReadmeBaseOrFinal ==
    /\ pc \notin {"start", "write_base", "aborted", "crashed"} => README.writes >= 1
    /\ README.writes >= 1
       => IF pc \in {"write_status", "done"}
          THEN README.writes = 2 /\ README.content = readme_content /\ idx > Len(matches)
          ELSE README.writes = 1 /\ README.content = cargo_base.stdout
    /\ TEST_STATUS.writes >= 1
       => pc = "done" /\ TEST_STATUS.writes = 1 /\ README.writes = 2
    /\ pc = "crashed" => TEST_STATUS.writes = 0

C4_Witness ==
    /\ pc = "crashed"
    /\ README.writes = 1
    /\ Occurs(README.content, Marker)

\* C5, as stated: the table rendered from a report with N rows of at least
\* six cells has N+1 lines.
C5_LineCountNPlusOne == ParsedOk => Len(markdown_report) = Len(LongRows) + 1

\* C5, amended: the table has N+2 lines, the two lines of the header (titles
\* and separator) and one line per row of at least six cells; line i+2 carries
\* the trimmed file name, the integer nearest to the coverage value and the
\* covered and total integers of the i-th such row.
C5_TableOfValidRows ==
    ParsedOk =>
        /\ Len(markdown_report) = Len(LongRows) + 2
        /\ markdown_report[1].kind = "header"
        /\ markdown_report[2].kind = "separator"
        /\ \A i \in 1..Len(LongRows) :
              LET line == markdown_report[i + 2]
                  src == LongRows[i]
                  cov == float(strip_percent(strip(src.td[2]))).val
                  nums == split(strip(src.td[3]), "/")
              IN  /\ line.kind = "row"
                  /\ line.name = strip(src.th[1])
                  /\ line.bar[1] = BarUrl
                  /\ Abs(100 * line.bar[2] - cov) <= 50
                  /\ line.covered = int(nums[1]).val
                  /\ line.total = int(nums[2]).val

C5_Witness ==
    /\ pc = "done"
    /\ Len(LongRows) = 2
    /\ LongRows[1] # LongRows[2]
    /\ TEST_STATUS.content = markdown_report

\* C6: a row after the first with fewer than six cells adds no line and does
\* not end the loop: the rows of the table are the rows with at least six
\* cells, all of them, in source order.
C6_ShortRowsSkipped ==
    ParsedOk =>
        [i \in 1..(Len(markdown_report) - 2) |-> markdown_report[i + 2].name]
            = [i \in 1..Len(LongRows) |-> strip(LongRows[i].th[1])]

C6_Witness ==
    /\ pc = "done"
    /\ Len(html.trs) = 4
    /\ HasSixCells(html.trs[2]) /\ ~HasSixCells(html.trs[3]) /\ HasSixCells(html.trs[4])
    /\ html.trs[2] # html.trs[4]

\* what a reference resolves to when it resolves at all
Resolves(match) ==
    /\ ~Unresolvable(match)
    /\ Target(match).content # <<>>

\* no file holds the placeholder, so nothing inserted can bring it back
NeverInserted(ref) == \A p \in Paths : ~Occurs(disk[p].content, ref)

\* C7: a match whose target does not exist, or whose .rs target makes the
\* scoped generator fail, leaves its placeholder in the returned document;
\* the matches after it are still resolved, and the run goes on to write the
\* final README.md and TEST_STATUS.md.
C7_UnresolvableLeftInPlace ==
    /\ [](DocsReturned =>
            \A i \in 1..Len(matches) :
                Unresolvable(matches[i]) =>
                    /\ Occurs(readme_content, Ref(matches[i]))
                    /\ Count(readme_content, Ref(matches[i])) >= Count(Scanned, Ref(matches[i]))
                    /\ \A j \in (i + 1)..Len(matches) :
                          (Resolves(matches[j]) /\ NeverInserted(Ref(matches[j])))
                              => ~Occurs(readme_content, Ref(matches[j])))
    /\ [](pc = "crashed" => README.writes <= 1 /\ matches = <<>>)
    /\ (pc = "docs_loop" ~> (pc = "done" /\ README.writes = 2 /\ TEST_STATUS.writes = 1))

C7_Witness ==
    /\ pc = "done"
    /\ Len(matches) = 3
    /\ ~Target(matches[1]).exists
    /\ matches[2][2] = PathR /\ Target(matches[2]).exists /\ Target(matches[2]).gen = "fail"
    /\ Resolves(matches[3])
    /\ ~Occurs(README.content, Ref(matches[3]))
    /\ Occurs(README.content, Ref(matches[1]))
    /\ Occurs(README.content, Ref(matches[2]))

\* C8, as stated: every placeholder whose path ends in .md and exists is
\* replaced by the content of the file, whatever that content is, and no
\* occurrence of it remains in the result.
C8_MarkdownAlwaysReplaced ==
    DocsReturned =>
        \A i \in 1..Len(matches) :
            (matches[i][2][2] = "md" /\ Target(matches[i]).exists)
                => ~Occurs(readme_content, Ref(matches[i]))

\* C8, amended: when the .md file exists and is not empty, resolving the match
\* replaces every occurrence of the placeholder then in the document by the
\* content of the file, verbatim; an empty file leaves the placeholder in
\* place; no occurrence remains in the result when no file content holds the
\* placeholder text.
C8_Step ==
    (/\ pc = "docs_loop"
     /\ idx <= Len(matches)
     /\ matches[idx][2][2] = "md"
     /\ Target(matches[idx]).exists)
    => LET ref == Ref(matches[idx])
           c == Target(matches[idx]).content
           n == Count(readme_content, ref)
       IN  IF c = <<>>
           THEN readme_content' = readme_content
           ELSE /\ Len(readme_content') = Len(readme_content) + n * (Len(c) - 1)
                /\ Count(readme_content', ref) = n * Count(c, ref)
                /\ \A k \in 1..Len(c) :
                      c[k] # ref =>
                          Count(readme_content', c[k])
                              = Count(readme_content, c[k]) + n * Count(c, c[k])
                /\ \A k \in 1..Len(readme_content) :
                      (readme_content[k] # ref /\ ~Occurs(c, readme_content[k]))
                          => Count(readme_content', readme_content[k])
                                 = Count(readme_content, readme_content[k])

C8_MarkdownReplaced ==
    /\ [][C8_Step]_vars
    /\ [](DocsReturned =>
            \A i \in 1..Len(matches) :
                (/\ matches[i][2][2] = "md"
                 /\ Target(matches[i]).exists
                 /\ Target(matches[i]).content # <<>>
                 /\ NeverInserted(Ref(matches[i])))
                    => ~Occurs(readme_content, Ref(matches[i])))

C8_Witness ==
    /\ pc = "done"
    /\ disk[PathA].content = <<Text("x"), RefC>>
    /\ Count(cargo_base.stdout, RefA) = 2
    /\ Count(README.content, Text("x")) = 2
    /\ Count(README.content, RefC) = 2
    /\ ~Occurs(README.content, RefA)

\* the document with every resolvable placeholder of it replaced at once, so
\* that inserted text is never substituted
RECURSIVE Simultaneous(_)
Simultaneous(doc) ==
    IF doc = <<>> THEN <<>>
    ELSE LET t == Head(doc)
             m == <<t.label, t.path>>
         IN  (IF t.kind = "docs" /\ Resolves(m) THEN Target(m).content ELSE <<t>>)
                 \o Simultaneous(Tail(doc))

\* C9, as stated: substitution is not recursive, text inserted for one match
\* is never substituted by the resolution of a later match.
C9_NotRecursive == DocsReturned => readme_content = Simultaneous(Scanned)

\* the placeholders of a document, in the order of a left-to-right scan
RECURSIVE RefsInOrder(_)
RefsInOrder(doc) ==
    IF doc = <<>> THEN <<>>
    ELSE (IF Head(doc).kind = "docs" THEN <<<<Head(doc).label, Head(doc).path>>>> ELSE <<>>)
             \o RefsInOrder(Tail(doc))

\* C9, amended: the matches are found once, by a left-to-right scan of the
\* document as it is before any docs substitution, and are resolved in that
\* order; resolving a match substitutes every occurrence of its placeholder in
\* the document as it then is, text inserted for earlier matches included;
\* no other placeholder is ever removed, so one that only appears in inserted
\* text and was not found by the scan stays in the result.
C9_Step ==
    (pc = "docs_loop" /\ idx <= Len(matches))
    => LET ref == Ref(matches[idx])
       IN  /\ idx' = idx + 1
           /\ (Resolves(matches[idx]) /\ ~Occurs(Target(matches[idx]).content, ref))
                 => ~Occurs(readme_content', ref)
           /\ \A q \in RefTokens :
                 q # ref => Count(readme_content', q) >= Count(readme_content, q)

C9_ScanOnceThenInOrder ==
    /\ [](InDocs => matches = RefsInOrder(Scanned))
    /\ [][C9_Step]_vars

C9_Witness ==
    /\ pc = "done"
    /\ readme_content # Simultaneous(Scanned)
    /\ cargo_base.stdout = <<RefA, RefB>>
    /\ disk[PathA].content = <<RefB>>
    /\ README.content = <<Text("y"), Text("y")>>

\* C10: the bar of a row is the URL https://geps.dev/progress/<n> with n an
\* integer nearest to the coverage value, for every coverage value from 0 to
\* 100, values halfway between two integers included; 66.7 gives 67, 100.0
\* gives 100 and 0.0 gives 0.
C10_BarIsNearestInteger ==
    \A i \in 1..Len(markdown_report) :
        LET line == markdown_report[i]
        IN  (line.kind = "row" /\ line.cov <= 100 * 100)
            => /\ line.bar[1] = BarUrl
               /\ \A k \in 0..100 :
                     Abs(100 * line.bar[2] - line.cov) <= Abs(100 * k - line.cov)
               /\ line.cov = 6670 => line.bar[2] = 67
               /\ line.cov = 10000 => line.bar[2] = 100
               /\ line.cov = 0 => line.bar[2] = 0

C10_Witness ==
    /\ pc = "done"
    /\ Len(markdown_report) = 3
    /\ markdown_report[3].cov = 6650
    /\ markdown_report[3].bar = <<BarUrl, 66>>

====
